---- MODULE Spec2Model ----
(***************************************************************************)
(* Model of the asynchronous streaming core of the noaa consumer           *)
(* (src/consumer/async.go): the public stream calls, the retry loop        *)
(* (retryAction), the dial (establishWebsocketConnection), the read loop   *)
(* (listenForMessages), the connection handle and the registry drained by  *)
(* Close().  One stream call owns one goroutine and one connection handle, *)
(* so a stream identifier names the call, its goroutine and its handle.    *)
(***************************************************************************)
EXTENDS Integers, Sequences, FiniteSets, TLC

\* ------------------------------------------------------------------ bounds
\* successful upgrades the server grants in one run
MaxUpgrades == 2
\* frames the server delivers in one run
MaxFrames == 3
\* the count of a stream's dial attempts stops here
DialsCap == 2

\* ------------------------------------------------------- program constants
maxRetries == 5

\* the stream calls of one run
Streams == {"a", "b"}
\* the six public stream operations, by kind and retry limit
Kinds == {"tail", "stream", "firehose"}
RetryLimits == {0, maxRetries}
\* what the dialer answers: upgrade, 401, any other failure
Answers == {"ok", "unauth", "fail"}
\* what the server does with upgrade requests during one run: "flaky"
\* answers anything, "failing" never upgrades, "rejecting" always answers 401
ServerModes == {"flaky", "failing", "rejecting"}
\* what one ReadMessage returns: a log-message frame, a frame of another
\* event type, a frame that does not decode, or a read error
FrameTypes == {"log", "other", "bad"}
ReadResults == FrameTypes \cup {"err"}
\* a connect-callback is the chain of reset closures wrapped around the
\* externally configured callback ("user"); <<>> is the nil callback
NilCallback == <<>>
UserCallback == <<"user">>

VARIABLES
  pc,          \* position of each stream's call / goroutine
  retries,     \* retryAction's retries argument
  logsOnly,    \* TRUE for tailingLogs (callback forwards log messages only)
  attempts,    \* retryAction's reconnectAttempts
  oldcb,       \* retryAction's oldConnectCallback
  callback,    \* Consumer.callback
  conns,       \* Consumer.conns, the registry (handles in append order)
  closed,      \* connection.closed of each stream's handle
  ws,          \* connection.ws: "nil", "open", or "closed" (ws.Close() done)
  err,         \* the error value action() returned, about to be sent
  errors,      \* the errors channel (buffer of capacity 1)
  cpc,         \* position of the thread inside Close(): "idle" or "closing"
  closeRet,    \* what the last Close() returned
  \* ---- the environment
  plan,        \* the stream calls (kind and retry limit) each stream of this run may make
  server,      \* how the server answers upgrade requests in this run
  upgradesLeft,\* upgrades the server will still grant
  framesLeft,  \* frames the server will still deliver
  \* ---- observation (history) variables
  rx,          \* frames read off the wire, each with the closed flag seen and
               \* the dial (1 = first, 2 = a later one) that opened its connection
  out,         \* indices (into rx) of the envelopes the caller received
  ndial,       \* dial attempts started by each stream, counted up to DialsCap
  runDials,    \* dial attempts started since the stream's last upgrade
  runErrs,     \* values sent on the error channel since the stream's last upgrade
  dialsSince,  \* dial attempts started since the last send on the error channel
  closedInRead,\* the handle was first marked closed while its loop sat in a read
  hlock,       \* the handle whose lock Close() holds inside close(), or "none"
  entry,       \* the registry as the latest Close() found it
  fresh        \* the handle was registered after some Close() had returned
               \* and no close() has marked it since

vars == <<pc, retries, logsOnly, attempts, oldcb, callback, conns, closed, ws,
          err, errors, cpc, closeRet, plan, server, upgradesLeft, framesLeft,
          rx, out, ndial, runDials, runErrs, dialsSince, closedInRead,
          hlock, entry, fresh>>

streamVars == <<pc, retries, logsOnly, attempts, oldcb, err, errors>>
handleVars == <<closed, ws, closedInRead>>
closeVars == <<cpc, closeRet>>
envVars == <<plan, server, upgradesLeft, framesLeft>>
histVars == <<rx, out, ndial, runDials, runErrs, dialsSince>>
regVars == <<hlock, entry, fresh>>

\* ----------------------------------------------------------------- helpers
Range(f) == {f[i] : i \in DOMAIN f}

\* capacity of the errors channel: make(chan error, 1)
ErrorsCap == 1

\* a send that never waits for room in the buffer
CanSendUnbounded(buf) == TRUE

\* errors <- err proceeds only while the buffer has room
CanSend(buf) == Len(buf) < ErrorsCap

\* the wrapping closure retryAction installs: reset, then the old callback
Wrapper(s, old) == <<s>> \o old

\* calling a callback chain: every reset closure in it zeroes the
\* reconnectAttempts variable it captured
Invoke(cb, att) == [t \in Streams |-> IF t \in Range(cb) THEN 0 ELSE att[t]]

\* a loop that stops one attempt early
LoopContinuesStrict(att, lim) == att < lim

\* the condition of retryAction's for loop
LoopContinues(att, lim) == att <= lim

\* a callback that forwards every envelope
ForwardsAll(lo, type) == TRUE

\* the tailingLogs / runStream / firehose callback: does it forward the envelope?
Forwards(lo, type) == IF lo THEN type = "log" ELSE TRUE

\* the state after construction, before any stream call; calls gives the
\* kinds and retry limits of the calls each stream may make (none: the call
\* is not made)
InitWith(calls, modes, upgrades, frames) ==
  /\ pc = [s \in Streams |-> "idle"]
  /\ plan = calls
  /\ retries = [s \in Streams |-> 0]
  /\ logsOnly = [s \in Streams |-> FALSE]
  /\ attempts = [s \in Streams |-> 0]
  /\ oldcb = [s \in Streams |-> NilCallback]
  /\ callback \in {NilCallback, UserCallback}
  /\ conns = <<>>
  /\ closed = [s \in Streams |-> FALSE]
  /\ ws = [s \in Streams |-> "nil"]
  /\ err = [s \in Streams |-> "none"]
  /\ errors = [s \in Streams |-> <<>>]
  /\ cpc = "idle"
  /\ closeRet = "none"
  /\ server \in modes
  /\ upgradesLeft = upgrades
  /\ framesLeft = frames
  /\ rx = [s \in Streams |-> <<>>]
  /\ out = [s \in Streams |-> <<>>]
  /\ ndial = [s \in Streams |-> 0]
  /\ runDials = [s \in Streams |-> 0]
  /\ runErrs = [s \in Streams |-> 0]
  /\ dialsSince = [s \in Streams |-> 0]
  /\ closedInRead = [s \in Streams |-> FALSE]
  /\ hlock = "none"
  /\ entry = <<>>
  /\ fresh = [s \in Streams |-> FALSE]

Init == InitWith([s \in Streams |-> IF s = "a" THEN Kinds \X RetryLimits ELSE {}],
                 ServerModes, MaxUpgrades, MaxFrames)

\* ------------------------------------------------------------ stream calls
\* TailingLogs / Stream (and the WithoutReconnect variants): make the
\* channels and start the goroutine; the handle is created by the goroutine.
\* Firehose: newConn runs in the caller before the goroutine starts.
Call(s, kind, lim) ==
  /\ pc[s] = "idle"
  /\ <<kind, lim>> \in plan[s]
  /\ retries' = [retries EXCEPT ![s] = lim]
  /\ logsOnly' = [logsOnly EXCEPT ![s] = (kind = "tail")]
  /\ IF kind = "firehose"
       THEN /\ cpc = "idle"          \* newConn takes connsLock
            /\ conns' = Append(conns, s)
            /\ fresh' = [fresh EXCEPT ![s] = closeRet # "none"]
            /\ pc' = [pc EXCEPT ![s] = "getcb"]
       ELSE /\ conns' = conns
            /\ fresh' = fresh
            /\ pc' = [pc EXCEPT ![s] = "new"]
  /\ UNCHANGED <<attempts, oldcb, callback, err, errors>>
  /\ UNCHANGED <<handleVars, closeVars, envVars, histVars>>
  /\ UNCHANGED <<hlock, entry>>

\* streamAppData: conn := c.newConn(nil)
NewConn(s) ==
  /\ pc[s] = "new"
  /\ cpc = "idle"                    \* connsLock is free
  /\ conns' = Append(conns, s)
  /\ fresh' = [fresh EXCEPT ![s] = closeRet # "none"]
  /\ pc' = [pc EXCEPT ![s] = "getcb"]
  /\ UNCHANGED <<retries, logsOnly, attempts, oldcb, callback, err, errors>>
  /\ UNCHANGED <<handleVars, closeVars, envVars, histVars>>
  /\ UNCHANGED <<hlock, entry>>

\* retryAction: oldConnectCallback := c.onConnectCallback()
GetCallback(s) ==
  /\ pc[s] = "getcb"
  /\ oldcb' = [oldcb EXCEPT ![s] = callback]
  /\ pc' = [pc EXCEPT ![s] = "setcb"]
  /\ UNCHANGED <<retries, logsOnly, attempts, callback, conns, err, errors>>
  /\ UNCHANGED <<handleVars, closeVars, envVars, histVars>>
  /\ UNCHANGED regVars

\* retryAction: c.callback = func() { reconnectAttempts = 0; old() }
SetWrapper(s) ==
  /\ pc[s] = "setcb"
  /\ callback' = Wrapper(s, oldcb[s])
  /\ pc' = [pc EXCEPT ![s] = "loop"]
  /\ UNCHANGED <<retries, logsOnly, attempts, oldcb, conns, err, errors>>
  /\ UNCHANGED <<handleVars, closeVars, envVars, histVars>>
  /\ UNCHANGED regVars

\* what one pass through the head of retryAction's loop decides: leave the
\* loop ("exhausted"), action() reports done ("done"), or action() dials
LoopDecision(att, lim, isClosed) ==
  IF ~LoopContinues(att, lim) THEN "exhausted"
  ELSE IF isClosed THEN "done"
  ELSE "dial"

\* retryAction: the loop condition, then action()'s conn.Closed() check.
\* Leaving the loop runs the deferred SetOnConnectCallback(oldConnectCallback)
\* and the goroutine's deferred close(outputs) and close(errors).
LoopCheck(s) ==
  /\ pc[s] = "loop"
  /\ LoopContinues(attempts[s], retries[s]) => hlock # s   \* conn.Closed() takes the lock
  /\ IF LoopDecision(attempts[s], retries[s], closed[s]) = "dial"
       THEN /\ pc' = [pc EXCEPT ![s] = "dial"]
            /\ ndial' = [ndial EXCEPT ![s] = IF @ < DialsCap THEN @ + 1 ELSE @]
            /\ runDials' = [runDials EXCEPT ![s] = @ + 1]
            /\ dialsSince' = [dialsSince EXCEPT ![s] = @ + 1]
            /\ callback' = callback
       ELSE /\ pc' = [pc EXCEPT ![s] = "done"]
            /\ ndial' = ndial
            /\ runDials' = runDials
            /\ dialsSince' = dialsSince
            /\ callback' = oldcb[s]
  /\ UNCHANGED <<retries, logsOnly, attempts, oldcb, conns, err, errors>>
  /\ UNCHANGED <<handleVars, closeVars, envVars, rx, out, runErrs>>
  /\ UNCHANGED regVars

\* the answers a server in a given mode can give
ModeAnswers(mode) ==
  CASE mode = "rejecting" -> {"unauth"}
    [] mode = "failing" -> {"unauth", "fail"}
    [] OTHER -> Answers

\* a dial that reports a 401 like any other dial error
DialErrorPlain(ans) == "dial"

\* the error establishWebsocketConnection returns for a dialer answer
DialError(ans) == IF ans = "unauth" THEN "unauth" ELSE "dial"

\* does establishWebsocketConnection call c.callback for this answer?
CallsBack(ans, cb) == ans = "ok" /\ cb # NilCallback

\* a setWebsocket that reopens the handle
AfterSetWebsocketReopen(isClosed) == FALSE

\* the closed flag after conn.setWebsocket(ws): only c.ws is assigned
AfterSetWebsocket(isClosed) == isClosed

\* establishWebsocketConnection returns; on success conn.setWebsocket(ws)
\* and listenForMessages starts
Dial(s, ans) ==
  /\ pc[s] = "dial"
  /\ ans \in ModeAnswers(server)
  /\ ans = "ok" => upgradesLeft > 0
  /\ ans = "ok" => hlock # s                   \* conn.setWebsocket takes the lock
  /\ attempts' = IF CallsBack(ans, callback) THEN Invoke(callback, attempts) ELSE attempts
  /\ IF ans = "ok"
       THEN /\ ws' = [ws EXCEPT ![s] = "open"]
            /\ closed' = [closed EXCEPT ![s] = AfterSetWebsocket(@)]
            /\ upgradesLeft' = upgradesLeft - 1
            /\ err' = err
            /\ pc' = [pc EXCEPT ![s] = "read"]
            /\ runDials' = [runDials EXCEPT ![s] = 0]
            /\ runErrs' = [runErrs EXCEPT ![s] = 0]
       ELSE /\ ws' = ws
            /\ closed' = closed
            /\ upgradesLeft' = upgradesLeft
            /\ err' = [err EXCEPT ![s] = DialError(ans)]
            /\ pc' = [pc EXCEPT ![s] = "senderr"]
            /\ UNCHANGED <<runDials, runErrs>>
  /\ UNCHANGED <<retries, logsOnly, oldcb, callback, conns, errors>>
  /\ UNCHANGED <<closedInRead, closeVars, plan, server, framesLeft>>
  /\ UNCHANGED <<rx, out, ndial, dialsSince>>
  /\ UNCHANGED regVars

\* a read loop that returns on a frame that does not decode
ListenStepAbort(isClosed, res) ==
  IF isClosed THEN "nil"
  ELSE IF res \in {"err", "bad"} THEN "read"
  ELSE "call"

\* a read loop that looks at the read error before the closed flag
ListenStepErrFirst(isClosed, res) ==
  IF res = "err" THEN "read"
  ELSE IF isClosed THEN "nil"
  ELSE IF res = "bad" THEN "skip"
  ELSE "call"

\* what listenForMessages does with one read result, given conn.Closed():
\* "nil" / "read" = return that value, "skip" = continue, "call" = callback
ListenStep(isClosed, res) ==
  IF isClosed THEN "nil"
  ELSE IF res = "err" THEN "read"
  ELSE IF res = "bad" THEN "skip"
  ELSE "call"

\* listenForMessages, one round: ws.ReadMessage() returns a frame or an
\* error (always an error once ws.Close() has run), then the Closed check,
\* the error check, the decode and the callback
Read(s, res) ==
  /\ pc[s] = "read"
  /\ hlock # s                                \* conn.Closed() takes the lock
  /\ ws[s] = "closed" => res = "err"
  /\ res \in FrameTypes => framesLeft > 0
  /\ framesLeft' = IF res \in FrameTypes THEN framesLeft - 1 ELSE framesLeft
  /\ rx' = IF res \in FrameTypes
             THEN [rx EXCEPT ![s] = Append(@, [type |-> res, closed |-> closed[s],
                                               conn |-> ndial[s]])]
             ELSE rx
  /\ LET step == ListenStep(closed[s], res) IN
     IF step \in {"nil", "read"}
       THEN /\ err' = [err EXCEPT ![s] = step]
            /\ pc' = [pc EXCEPT ![s] = "senderr"]
       ELSE /\ err' = err
            /\ pc' = [pc EXCEPT ![s] =
                        IF step = "call" /\ Forwards(logsOnly[s], res)
                          THEN "deliver" ELSE "read"]
  /\ UNCHANGED <<retries, logsOnly, attempts, oldcb, callback, conns, errors>>
  /\ UNCHANGED <<handleVars, closeVars, plan, server, upgradesLeft, out, ndial, runDials, runErrs, dialsSince>>
  /\ UNCHANGED regVars

\* callback: outputs <- env, an unbuffered handoff to the receiving caller
Deliver(s) ==
  /\ pc[s] = "deliver"
  /\ out' = [out EXCEPT ![s] = Append(@, Len(rx[s]))]
  /\ pc' = [pc EXCEPT ![s] = "read"]
  /\ UNCHANGED <<retries, logsOnly, attempts, oldcb, callback, conns, err, errors>>
  /\ UNCHANGED <<handleVars, closeVars, envVars, rx, ndial, runDials, runErrs, dialsSince>>
  /\ UNCHANGED regVars

\* retryAction: errors <- err (blocks while the buffer is full), then
\* time.Sleep(reconnectTimeout) starts
SendError(s) ==
  /\ pc[s] = "senderr"
  /\ CanSend(errors[s])
  /\ errors' = [errors EXCEPT ![s] = Append(@, err[s])]
  /\ runErrs' = [runErrs EXCEPT ![s] = @ + 1]
  /\ dialsSince' = [dialsSince EXCEPT ![s] = 0]
  /\ err' = [err EXCEPT ![s] = "none"]
  /\ pc' = [pc EXCEPT ![s] = "sleep"]
  /\ UNCHANGED <<retries, logsOnly, attempts, oldcb, callback, conns>>
  /\ UNCHANGED <<handleVars, closeVars, envVars, rx, out, ndial, runDials>>
  /\ UNCHANGED regVars

\* retryAction: the sleep ends and the loop's post statement
\* reconnectAttempts++ runs
Wake(s) ==
  /\ pc[s] = "sleep"
  /\ attempts' = [attempts EXCEPT ![s] = @ + 1]
  /\ pc' = [pc EXCEPT ![s] = "loop"]
  /\ UNCHANGED <<retries, logsOnly, oldcb, callback, conns, err, errors>>
  /\ UNCHANGED <<handleVars, closeVars, envVars, histVars>>
  /\ UNCHANGED regVars

\* the caller receives one value from the error channel
RecvError(s) ==
  /\ errors[s] # <<>>
  /\ errors' = [errors EXCEPT ![s] = Tail(@)]
  /\ UNCHANGED <<pc, retries, logsOnly, attempts, oldcb, callback, conns, err>>
  /\ UNCHANGED <<handleVars, closeVars, envVars, histVars>>
  /\ UNCHANGED regVars

\* ------------------------------------------------------------ the consumer
SetOnConnectCallback(cb) ==
  /\ callback # cb
  /\ callback' = cb
  /\ UNCHANGED <<pc, retries, logsOnly, attempts, oldcb, conns, err, errors>>
  /\ UNCHANGED <<handleVars, closeVars, envVars, histVars>>
  /\ UNCHANGED regVars

\* what ws.Close() may return on a transport in state w: nil or an error
WsCloseResults(w) == IF w = "closed" THEN {"wserr"} ELSE {"nil", "wserr"}

\* a Close() that reports success on an empty registry
CloseEntryNil(registry) == IF Len(registry) = 0 THEN "nil" ELSE "none"

\* what Close() returns before its loop: the error on an empty registry,
\* nothing yet ("none") otherwise
CloseEntry(registry) == IF Len(registry) = 0 THEN "noconn" ELSE "none"

\* Close(): take connsLock; with an empty registry return the error at once
CloseCall ==
  /\ cpc = "idle"
  /\ closeRet' = CloseEntry(conns)
  /\ cpc' = IF CloseEntry(conns) = "none" THEN "closing" ELSE "idle"
  /\ entry' = conns
  /\ UNCHANGED <<streamVars, callback, conns, handleVars, envVars, histVars>>
  /\ UNCHANGED <<hlock, fresh>>

\* connection.close(), entered from Close(): c.lock.Lock() is granted while
\* Close() still holds connsLock
LockHandle ==
  /\ cpc = "closing"
  /\ hlock = "none"
  /\ hlock' = Head(conns)
  /\ UNCHANGED <<streamVars, callback, conns, handleVars, closeVars, envVars, histVars>>
  /\ UNCHANGED <<entry, fresh>>

\* a close() that takes a handle without a transport for closed
CloseResultsLenient(w) == IF w = "nil" THEN {"nil"} ELSE WsCloseResults(w)

\* what connection.close() may return for a handle whose ws is w
CloseResults(w) == IF w = "nil" THEN {"noconn"} ELSE WsCloseResults(w)

\* a close() that looks for the transport before it marks the handle
MarksClosedWithTransport(w) == w # "nil"

\* does connection.close() set closed for a handle whose ws is w?  The
\* assignment comes before the nil check
MarksClosed(w) == TRUE

\* the registry after one round of Close()'s loop: the head is removed only
\* when its close() returned nil
Remaining(registry, res) == IF res = "nil" THEN Tail(registry) ELSE registry

\* Close(): one round of the loop, c.conns[0].close() and the slice step
CloseOne(res) ==
  /\ cpc = "closing"
  /\ LET h == Head(conns) IN
     /\ closed' = [closed EXCEPT ![h] = @ \/ MarksClosed(ws[h])]
     /\ closedInRead' = [closedInRead EXCEPT ![h] =
                           @ \/ (~closed[h] /\ pc[h] = "read")]
     /\ hlock \in {"none", h}
     /\ hlock' = "none"
     /\ res \in CloseResults(ws[h])
     /\ ws' = IF ws[h] = "nil" THEN ws ELSE [ws EXCEPT ![h] = "closed"]
     /\ conns' = Remaining(conns, res)
     /\ IF res = "nil"
          THEN /\ cpc' = IF Len(conns) = 1 THEN "idle" ELSE "closing"
               /\ closeRet' = IF Len(conns) = 1 THEN "nil" ELSE closeRet
          ELSE /\ cpc' = "idle"
               /\ closeRet' = res
     /\ fresh' = [fresh EXCEPT ![h] = FALSE]
  /\ UNCHANGED <<streamVars, callback, envVars, histVars, entry>>

StreamStep(s) ==
  \/ \E kind \in Kinds, lim \in RetryLimits : Call(s, kind, lim)
  \/ NewConn(s)
  \/ GetCallback(s)
  \/ SetWrapper(s)
  \/ LoopCheck(s)
  \/ \E ans \in Answers : Dial(s, ans)
  \/ \E res \in ReadResults : Read(s, res)
  \/ Deliver(s)
  \/ SendError(s)
  \/ Wake(s)
  \/ RecvError(s)

CloseStep ==
  \/ CloseCall
  \/ \E res \in {"nil", "wserr", "noconn"} : CloseOne(res)

\* one stream call on a consumer whose callback is configured beforehand
Next ==
  \/ \E s \in Streams : StreamStep(s)
  \/ CloseStep

Spec == Init /\ [][Next]_vars

\* one stream call, with SetOnConnectCallback called at any time
InitCb == InitWith([s \in Streams |-> IF s = "a" THEN Kinds \X RetryLimits ELSE {}],
                   ServerModes, 1, 1)
NextCb ==
  \/ Next
  \/ \E cb \in {NilCallback, UserCallback} : SetOnConnectCallback(cb)

SpecCb == InitCb /\ [][NextCb]_vars

\* two concurrent stream calls on one consumer
InitPair == InitWith([s \in Streams |-> IF s = "a" THEN Kinds \X RetryLimits ELSE Kinds \X {0}],
                     {"flaky"}, 1, 1)
NextPair == \E s \in Streams : StreamStep(s)
SpecPair == InitPair /\ [][NextPair]_vars

\* a Firehose and a Stream call, both without reconnection, and Close()
InitReg == InitWith([s \in Streams |-> IF s = "a" THEN {<<"firehose", 0>>}
                                                   ELSE {<<"stream", 0>>}],
                    {"flaky"}, 1, 1)
SpecReg == InitReg /\ [][Next]_vars

\* one stream call and Close(), with the handle lock taken inside close()
\* as a step of its own
InitLock == InitWith([s \in Streams |-> IF s = "a" THEN Kinds \X RetryLimits ELSE {}],
                     {"flaky"}, 1, 1)
NextLock ==
  \/ Next
  \/ LockHandle
SpecLock == InitLock /\ [][NextLock]_vars

\* The goroutine of a stream runs whenever it can: every step that needs no
\* one else is taken eventually.  A dial always returns.  A read returns by
\* itself only on a transport that ws.Close() has closed; on an open
\* transport it waits for the network.
LocalStep(s) ==
  \/ NewConn(s)
  \/ GetCallback(s)
  \/ SetWrapper(s)
  \/ LoopCheck(s)
  \/ \E ans \in Answers : Dial(s, ans)
  \/ (ws[s] = "closed" /\ Read(s, "err"))
  \/ SendError(s)
  \/ Wake(s)

\* a caller that keeps draining both channels, and a Close() that, once
\* entered, runs to its return
Fairness ==
  /\ \A s \in Streams : WF_vars(LocalStep(s))
  /\ \A s \in Streams : WF_vars(Deliver(s))
  /\ \A s \in Streams : WF_vars(RecvError(s))
  /\ WF_vars(\E res \in {"nil", "wserr", "noconn"} : CloseOne(res))

SpecFair == Init /\ [][Next]_vars /\ Fairness

TypeOK ==
  /\ pc \in [Streams -> {"idle", "new", "getcb", "setcb", "loop", "dial",
                         "read", "deliver", "senderr", "sleep", "done"}]
  /\ \A s \in Streams : attempts[s] \in 0..(maxRetries + 1)
  /\ \A s \in Streams : Len(errors[s]) <= ErrorsCap

\* ------------------------------------------------------------------ claims
\* both channels of a stream call are closed
BothClosed(s) == pc[s] = "done"
\* the stream call has been made and its task has not exited
Outstanding(s) == pc[s] \notin {"idle", "done"}

\* C1: with a server that never upgrades and a handle that is never closed,
\* a stream call with retry limit L never starts more than L+1 dials nor
\* sends more than L+1 errors, and when its channels are closed it has
\* started exactly L+1 dials and sent exactly L+1 errors.
C1_ExhaustionAfterLimitPlusOne ==
  \A s \in Streams :
    (server # "flaky" /\ ~closed[s]) =>
      /\ runDials[s] <= retries[s] + 1
      /\ runErrs[s] <= retries[s] + 1
      /\ BothClosed(s) => (runDials[s] = retries[s] + 1 /\ runErrs[s] = retries[s] + 1)

C1_Witness ==
  \E s \in Streams :
    /\ server # "flaky" /\ ~closed[s] /\ BothClosed(s)
    /\ retries[s] = maxRetries /\ runErrs[s] = maxRetries + 1

\* C2: every successful upgrade resets the attempt counter, so the counter
\* is zero throughout the read loop that follows, and a stream whose handle
\* was never closed ends only after limit+1 errors since its last upgrade.
C2_UpgradeResetsCounter ==
  \A s \in Streams :
    /\ pc[s] \in {"read", "deliver"} => attempts[s] = 0
    /\ (BothClosed(s) /\ ~closed[s]) => runErrs[s] = retries[s] + 1

\* C3: once the handle has been marked closed by a Close() that found the
\* read loop in a read, no value is sent on the stream's error channel.
C3_NoSendAfterLocalClose ==
  [][\A s \in Streams : closedInRead[s] => Len(errors'[s]) <= Len(errors[s])]_vars

\* C4: when Close() runs while a stream is outstanding, both channels of
\* that stream are eventually closed.
C4_CloseClosesChannels ==
  \A s \in Streams : (cpc = "closing" /\ Outstanding(s)) ~> BothClosed(s)

\* C5: a Close() that finds the registry empty returns the
\* no-active-connection error in the same step and changes neither the
\* registry nor any handle.
C5_CloseOnEmptyRegistry ==
  [][(cpc = "idle" /\ Len(conns) = 0 /\ <<cpc, closeRet>> # <<cpc', closeRet'>>)
       => (closeRet' = "noconn" /\ cpc' = "idle" /\ UNCHANGED <<conns, closed, ws>>)]_vars

C5_Witness == closeRet = "noconn" /\ cpc = "idle" /\ conns = <<>>

\* the step in which stream s reads a frame of one of the given types off
\* the wire while its handle is not closed
ReadsOpen(s, types) ==
  /\ ~closed[s]
  /\ Len(rx'[s]) = Len(rx[s]) + 1
  /\ rx'[s][Len(rx'[s])].type \in types

\* C6: reading a frame that does not decode only moves the loop back to the
\* next read: nothing is handed to the callback, nothing is sent on the
\* error channel, the attempt counter and the connection are unchanged and
\* what was delivered stays delivered; a well-formed frame read right after
\* a malformed one on an open handle still goes to the callback.
C6_MalformedFrameSkipped ==
  [][\A s \in Streams :
       /\ ReadsOpen(s, {"bad"}) =>
            /\ pc'[s] = "read"
            /\ UNCHANGED <<out, errors, err, attempts, runErrs, ws, closed, conns>>
       /\ (/\ ReadsOpen(s, {"log"} \cup (IF logsOnly[s] THEN {} ELSE {"other"}))
           /\ Len(rx[s]) > 0
           /\ rx[s][Len(rx[s])].type = "bad") => pc'[s] = "deliver"]_vars

C6_Witness ==
  \E s \in Streams :
    /\ Len(rx[s]) = 3
    /\ rx[s][1].type = "log" /\ rx[s][2].type = "bad" /\ rx[s][3].type = "log"
    /\ rx[s][1].conn = rx[s][3].conn
    /\ out[s] = <<1, 3>>

\* the frames of rx[s] that the claim says must reach the caller, as indices
Indices(s) == [i \in 1..Len(rx[s]) |-> i]
Decodable(s, i) == rx[s][i].type # "bad" /\ (logsOnly[s] => rx[s][i].type = "log")
ReadOpen(s, i) == ~rx[s][i].closed
\* the envelope the callback is handing over, if any
InFlight(s) == IF pc[s] = "deliver" THEN <<Len(rx[s])>> ELSE <<>>

C8_NoReconnectDialsOnce ==
  \A s \in Streams : retries[s] = 0 => ndial[s] <= 1

\* C9: with a server that answers every dial with 401, every value a stream
\* sends on its error channel is the unauthorized error, each failure takes
\* one unit of the budget and nothing resets the counter, and a stream whose
\* handle was never closed ends after exactly L+1 of them.
C9_UnauthorizedIsRetried ==
  server = "rejecting" =>
    \A s \in Streams :
      /\ err[s] \in {"none", "unauth"}
      /\ \A i \in 1..Len(errors[s]) : errors[s][i] = "unauth"
      /\ attempts[s] = runErrs[s] - (IF pc[s] = "sleep" THEN 1 ELSE 0)
      /\ (BothClosed(s) /\ ~closed[s]) => runErrs[s] = retries[s] + 1

C9_Witness ==
  \E s \in Streams :
    /\ server = "rejecting" /\ BothClosed(s) /\ ~closed[s]
    /\ retries[s] = maxRetries /\ runErrs[s] = maxRetries + 1
    /\ errors[s] = <<"unauth">>

\* C10 as stated: at most one error is pending, and while one is pending no
\* new dial is started.
C10_NoDialWhilePending ==
  \A s \in Streams :
    /\ Len(errors[s]) <= 1
    /\ errors[s] # <<>> => dialsSince[s] = 0

\* C10 amended: at most one error is pending, and while one is pending the
\* retry loop starts at most one further dial: it stalls at the send of that
\* attempt's error until the caller has received the pending one.
C10_OneDialWhilePending ==
  \A s \in Streams :
    /\ Len(errors[s]) <= 1
    /\ errors[s] # <<>> => dialsSince[s] <= 1
    /\ (errors[s] # <<>> /\ pc[s] = "senderr") => ~ENABLED SendError(s)

C10_Witness ==
  \E s \in Streams : errors[s] # <<>> /\ pc[s] = "senderr" /\ dialsSince[s] = 1

\* C11: a step of one stream (its call, a dial, an upgrade, an error, its
\* exit) never changes the attempt counter of another stream.
C11_StreamsIndependent ==
  [][\A s, t \in Streams :
       (s # t /\ pc'[t] # pc[t]) => attempts'[s] = attempts[s]]_vars

\* the step in which a Close() that entered its loop returns
CloseReturns == cpc = "closing" /\ cpc' = "idle"
\* the step in which a handle is registered
Registers(s) == Len(conns') = Len(conns) + 1 /\ conns'[Len(conns')] = s

\* C12: a handle registered after a Close() has returned starts with
\* closed = false and without a transport, and a Close() that finds it in
\* the registry has marked it closed when it returns.
C12_LaterCloseMarksFresh ==
  [][/\ \A s \in Streams : Registers(s) => (~closed'[s] /\ ws'[s] = "nil")
     /\ CloseReturns => \A h \in Range(entry) : fresh[h] => closed'[h]]_vars

\* C13: a round of Close() removes a handle from the registry only marked
\* closed and with its transport closed, and when Close() returns nil the
\* registry is empty and every handle it found in the registry is marked
\* closed and is no longer registered.
C13_NilCloseEmptiesRegistry ==
  [][/\ (cpc = "closing" /\ conns' # conns) =>
          (closed'[Head(conns)] /\ ws'[Head(conns)] = "closed")
     /\ (CloseReturns /\ closeRet' = "nil") =>
          /\ conns' = <<>>
          /\ \A h \in Range(entry) : closed'[h] /\ ws[h] # "nil"]_vars

C13_Witness ==
  /\ cpc = "idle" /\ closeRet = "nil" /\ conns = <<>>
  /\ \E h \in Streams : entry = <<h>> /\ closed[h] /\ ws[h] = "closed"

\* the handles of the registry that come after its head
AfterHead(registry) == Range(Tail(registry))

\* C14: when the close of a handle fails, Close() returns that failure in
\* the same step; the handles it found before the failing one are marked
\* closed and no longer registered, the failing one is marked closed, and
\* the ones after it keep their closed flag, their transport and their
\* place in the registry.
C14_FailedCloseStopsThere ==
  [][(cpc = "closing" /\ closeRet' \in {"wserr", "noconn"}) =>
       /\ cpc' = "idle"
       /\ closed'[Head(conns)]
       /\ \A k \in Range(entry) \ Range(conns) : closed'[k] /\ k \notin Range(conns')
       /\ conns' = conns
       /\ \A k \in AfterHead(conns) : closed'[k] = closed[k] /\ ws'[k] = ws[k]]_vars

C14_Witness ==
  /\ cpc = "idle" /\ closeRet \in {"wserr", "noconn"}
  /\ \E h, k \in Streams :
       /\ entry = <<h, k>> /\ conns = <<k>>
       /\ closed[h] /\ closed[k]

\* the step in which Close() runs close() on the head of the registry
ClosesHead == cpc = "closing" /\ (cpc' = "idle" \/ conns' # conns)

\* C15: close() is never run on a handle whose transport ws.Close() has
\* already been issued on, so the transport close is issued at most once.
C15_TransportClosedOnce ==
  [][ClosesHead => ws[Head(conns)] # "closed"]_vars

\* C16: when both channels of a stream are closed, its handle is marked
\* closed.
C16_HandleClosedAtExit ==
  \A s \in Streams : BothClosed(s) => closed[s]

\* C17: the step in which a stream's retryAction exits leaves the
\* connect-callback equal to the one it found when it started, and once
\* every stream that was called has exited the connect-callback holds no
\* reset closure of any stream: it is the externally configured one.
C17_CallbackRestored ==
  [][/\ \A s \in Streams :
          (pc[s] # "done" /\ pc'[s] = "done") => callback' = oldcb[s]
     /\ (\A s \in Streams : pc'[s] \in {"idle", "done"}) =>
          Range(callback') \cap Streams = {}]_vars

\* the step in which a ReadMessage of stream s returns
ReadReturns(s) == pc[s] = "read" /\ (pc'[s] # "read" \/ rx'[s] # rx[s])

\* C18: when a read returns on a handle marked closed, the loop returns nil
\* and delivers nothing, whatever the read returned; on a handle not marked
\* closed a failed read returns the read error and a successful read does
\* not return from the loop; nil is returned in no other case.
C18_NilIffClosedAtRead ==
  [][\A s \in Streams : ReadReturns(s) =>
       /\ closed[s] => (pc'[s] = "senderr" /\ err'[s] = "nil" /\ out' = out)
       /\ (~closed[s] /\ rx'[s] = rx[s]) => (pc'[s] = "senderr" /\ err'[s] = "read")
       /\ (~closed[s] /\ rx'[s] # rx[s]) => pc'[s] \in {"read", "deliver"}
       /\ err'[s] = "nil" => closed[s]]_vars

C18_Witness ==
  \E s \in Streams :
    /\ pc[s] = "senderr" /\ err[s] = "nil"
    /\ Len(rx[s]) > 0 /\ rx[s][Len(rx[s])].closed
    /\ Decodable(s, Len(rx[s]))

\* C19: the registry lock (held by Close() from its entry to its return)
\* and a handle's lock are never held at the same time.
C19_LocksNeverNested ==
  ~(cpc = "closing" /\ hlock # "none")

\* C20: a handle that is marked closed is marked closed in every later
\* state.
C20_ClosedNeverReverts ==
  [][\A s \in Streams : closed[s] => closed'[s]]_vars

C20_Witness ==
  \E s \in Streams : closed[s] /\ ws[s] = "open" /\ closeRet = "wserr"
====
